---- MODULE Spec2Model ----
(***************************************************************************)
(* A model of src/main.py: the course catalog's level bucketing and career *)
(* classification (CourseCatalog), the enrollment-ratio comprehension      *)
(* (Course.enrollement_ratio) and the command line entry (main,            *)
(* cli_interface).                                                         *)
(*                                                                         *)
(* Python lists are sequences; a dict is the sequence of its <<key,value>> *)
(* pairs in insertion order; a frozen dataclass is a record compared by    *)
(* value, as dataclass equality compares it.                               *)
(***************************************************************************)
EXTENDS Integers, Sequences, FiniteSets

VARIABLES
    courses,               \* CourseCatalog.courses, the catalog's list object
    catalog0,              \* history: the list the catalog was constructed with
    levels_called,         \* whether courses_by_level has been called
    levels,                \* the last courses_by_level call: its arguments and return value
    career_calls,          \* history: courses_by_career calls so far, counted up to 2
    by_career,             \* the last courses_by_career return value
    undergrads_to_delete,  \* the local of that name at the end of the last courses_by_career call
    first_by_career,       \* history: the return value of the first courses_by_career call
    x_courses,             \* the list a ratio comprehension iterates over
    x_idx,                 \* the comprehension's position in it
    x_data,                \* the ratios built so far
    x_status,              \* "idle", "building", "done" (list produced) or the exception raised
    pc,                    \* where cli_interface / main stands
    file_exists,           \* environment: whether data_file names a file right now
    isfile_result,         \* what os.path.isfile answered at line 250: "unset", "yes", "no"
    opened,                \* whether open(data_file) has succeeded
    file_content,          \* the decoded JSON: a list of raw catalogs
    cat_idx,               \* raw catalogs consumed by the loop of line 259
    catalogs,              \* main's list catalogs
    fall_2021_12_08,       \* main's locals of these names: 0 is None, k is catalogs[k]
    spring_2021_12_08,
    spring_2022_01_11,
    exc,                   \* the exception propagating out of main, or "none"
    stderr,                \* what was written to stderr: "", "message" or "traceback"
    exit_status            \* "running", "exit(0)" or "exit(1)"

careerVars == <<courses, catalog0, levels_called, levels, career_calls, by_career,
                undergrads_to_delete, first_by_career>>
ratioVars == <<x_courses, x_idx, x_data, x_status>>
mainVars == <<pc, file_exists, isfile_result, opened, file_content, cat_idx, catalogs,
              fall_2021_12_08, spring_2021_12_08, spring_2022_01_11, exc, stderr, exit_status>>
vars == <<careerVars, ratioVars, mainVars>>

\* ---------------------------------------------------------------- bounds
MaxCourses == 3
MaxRatioCourses == 3
MaxCatalogs == 3

\* ---------------------------------------------------- program constants
BandWidth == 1000
DefaultMinLevel == 1000
DefaultMaxLevel == 9000
UndergradMaxLevel == 5000
GradMinLevel == 6000

\* ------------------------------------------------------------ input sets
Names == {"A", "B"}
Numbers == {5000, 6000}
OtherNumbers == {999, 4999, 9999, 10000}

\* the (min_level, max_level) pairs courses_by_level is called with
LevelBounds == {<<1000, 9000>>, <<1000, 6000>>, <<6000, 6000>>, <<9000, 6000>>}

\* class Course, restricted to the fields classification reads; the numbers
\* next to and beyond the default levels 1000..9999 come with one name only
Course == [number : Numbers, name : Names] \cup [number : OtherNumbers, name : {"A"}]

SeqsUpTo(S, n) == UNION {[1..k -> S] : k \in 0..n}

\* ------------------------------------------------------ list primitives
\* list.remove(x): drops the first element equal to x
list_remove(s, x) ==
    IF \E i \in DOMAIN s : s[i] = x
    THEN LET i == CHOOSE k \in DOMAIN s : s[k] = x /\ \A m \in 1..(k - 1) : s[m] # x
         IN  SubSeq(s, 1, i - 1) \o SubSeq(s, i + 1, Len(s))
    ELSE s

\* itertools.chain.from_iterable over a sequence of lists
RECURSIVE chain_from_iterable(_)
chain_from_iterable(ls) ==
    IF ls = <<>> THEN <<>> ELSE Head(ls) \o chain_from_iterable(Tail(ls))

\* dict.values()
values(d) == [k \in DOMAIN d |-> d[k][2]]

\* range(start, stop, 1000) as a sequence
range_by_band(start, stop) ==
    LET n == IF stop > start THEN ((stop - start) + (BandWidth - 1)) \div BandWidth ELSE 0
    IN  [k \in 1..n |-> start + (k - 1) * BandWidth]

\* ------------------------------------------------------- CourseCatalog
courses_in_level_closed(cs, level) ==
    SelectSeq(cs, LAMBDA course : level <= course.number /\ course.number <= level + BandWidth)

courses_in_level(cs, level) ==
    SelectSeq(cs, LAMBDA course : level <= course.number /\ course.number < level + BandWidth)

courses_by_level(cs, min_level, max_level) ==
    LET lv == range_by_band(min_level, max_level + BandWidth)
    IN  [k \in DOMAIN lv |-> <<lv[k], courses_in_level(cs, lv[k])>>]

\* by_career["undergrad exclusive"] as first built (lines 138-139)
candidate_undergrad_catalog_order(cs) ==
    SelectSeq(cs, LAMBDA course :
        DefaultMinLevel <= course.number /\ course.number < UndergradMaxLevel + BandWidth)

candidate_undergrad(cs) ==
    chain_from_iterable(values(courses_by_level(cs, DefaultMinLevel, UndergradMaxLevel)))

\* by_career["grad exclusive"] as first built (lines 141-142)
candidate_grad_below_9000(cs) ==
    chain_from_iterable(values(courses_by_level(cs, GradMinLevel, DefaultMaxLevel - BandWidth)))

candidate_grad(cs) ==
    chain_from_iterable(values(courses_by_level(cs, GradMinLevel, DefaultMaxLevel)))

\* the filter of lines 149-152
matching_grad_course(grad_exclusive, undergrad_course) ==
    SelectSeq(grad_exclusive, LAMBDA course : course.name = undergrad_course.name)

\* matching_grad_course[0] of lines 155-156
last_matched_course(matching) == matching[Len(matching)]

matched_course(matching) == matching[1]

\* the course line 155 appends to by_career["combined"]
combined_entry_undergrad(undergrad_course, grad_course) == undergrad_course

combined_entry(undergrad_course, grad_course) == grad_course

\* line 156: the remove acts on the list object by_career["grad exclusive"]
\* holds, which list(...) built fresh at lines 141-142; st.courses is the
\* catalog's own list object.
remove_from_grad_exclusive_skipped(st, grad_course) == st

remove_from_grad_exclusive_aliased(st, grad_course) ==
    [st EXCEPT !.ge = list_remove(@, grad_course),
               !.courses = list_remove(@, grad_course)]

remove_from_grad_exclusive(st, grad_course) ==
    [st EXCEPT !.ge = list_remove(@, grad_course)]

\* the body of the first loop (lines 149-156) for one undergrad_course
match_body(st, undergrad_course) ==
    LET matching == matching_grad_course(st.ge, undergrad_course)
    IN  IF Len(matching) > 0
        THEN remove_from_grad_exclusive(
                 [st EXCEPT !.del = Append(@, undergrad_course),
                            !.combined = Append(@, combined_entry(undergrad_course,
                                                                  matched_course(matching)))],
                 matched_course(matching))
        ELSE st

\* for undergrad_course in by_career["undergrad exclusive"] (line 148); the
\* list iterated is not changed by the loop
RECURSIVE match_loop(_, _)
match_loop(st, k) ==
    IF k > Len(st.ue) THEN st ELSE match_loop(match_body(st, st.ue[k]), k + 1)

\* lines 158-159
RECURSIVE delete_loop(_, _)
delete_loop(undergrad_exclusive, to_delete) ==
    IF to_delete = <<>> THEN undergrad_exclusive
    ELSE delete_loop(list_remove(undergrad_exclusive, Head(to_delete)), Tail(to_delete))

\* courses_by_career, with the catalog's list and the local undergrads_to_delete
\* kept beside the returned dict
courses_by_career(cs) ==
    LET st0 == [courses |-> cs,
                ue |-> candidate_undergrad(cs),
                combined |-> <<>>,
                ge |-> candidate_grad(cs),
                del |-> <<>>]
        st1 == match_loop(st0, 1)
    IN  [st1 EXCEPT !.ue = delete_loop(st1.ue, st1.del)]

\* ------------------------------------------------------------- actions
CallCoursesByLevel ==
    \E b \in LevelBounds : LET min_level == b[1] max_level == b[2] IN
        /\ levels_called' = TRUE
        /\ levels' = [min_level |-> min_level,
                      max_level |-> max_level,
                      ret |-> courses_by_level(courses, min_level, max_level)]
        /\ UNCHANGED <<courses, catalog0, career_calls, by_career, undergrads_to_delete,
                       first_by_career>>
        /\ UNCHANGED <<ratioVars, mainVars>>

CallCoursesByCareer ==
    LET st == courses_by_career(courses)
        ret == [undergrad_exclusive |-> st.ue,
                combined |-> st.combined,
                grad_exclusive |-> st.ge]
    IN  /\ courses' = st.courses
        /\ career_calls' = IF career_calls < 2 THEN career_calls + 1 ELSE career_calls
        /\ by_career' = ret
        /\ undergrads_to_delete' = st.del
        /\ first_by_career' = IF career_calls = 0 THEN ret ELSE first_by_career
        /\ UNCHANGED <<catalog0, levels_called, levels>>
        /\ UNCHANGED <<ratioVars, mainVars>>

\* the value of by_career and first_by_career before any call
NoCareers == [undergrad_exclusive |-> <<>>, combined |-> <<>>, grad_exclusive |-> <<>>]

\* a catalog with the given course list, no method called yet
CatalogInit(cs) ==
    /\ courses = cs
    /\ catalog0 = cs
    /\ levels_called = FALSE
    /\ levels = [min_level |-> DefaultMinLevel, max_level |-> DefaultMaxLevel, ret |-> <<>>]
    /\ career_calls = 0
    /\ by_career = NoCareers
    /\ undergrads_to_delete = <<>>
    /\ first_by_career = NoCareers

\* no ratio comprehension under way
RatioIdle ==
    /\ x_courses = <<>>
    /\ x_idx = 0
    /\ x_data = <<>>
    /\ x_status = "idle"

\* the program not started
MainIdle ==
    /\ pc = "idle"
    /\ file_exists = FALSE
    /\ isfile_result = "unset"
    /\ opened = FALSE
    /\ file_content = <<>>
    /\ cat_idx = 0
    /\ catalogs = <<>>
    /\ fall_2021_12_08 = 0
    /\ spring_2021_12_08 = 0
    /\ spring_2022_01_11 = 0
    /\ exc = "none"
    /\ stderr = ""
    /\ exit_status = "running"

Init ==
    /\ \E cs \in SeqsUpTo(Course, MaxCourses) : CatalogInit(cs)
    /\ RatioIdle
    /\ MainIdle

Next == CallCoursesByLevel \/ CallCoursesByCareer

Spec == Init /\ [][Next]_vars

\* ------------------------------------------- enrollment-ratio comprehension
Capacities == {0, 2, 4}
Enrolleds == {1, 2, 3}

\* class Course, restricted to the fields enrollement_ratio reads
RatioCourse == [capacity : Capacities, enrolled : Enrolleds]

RECURSIVE GCD(_, _)
GCD(a, b) == IF b = 0 THEN a ELSE GCD(b, a % b)

\* the float enrolled / capacity, kept as the fraction in lowest terms (equal
\* quotients are equal floats)
Float(n, d) == [kind |-> "float", num |-> n \div GCD(n, d), den |-> d \div GCD(n, d)]

Raise(e) == [kind |-> e, num |-> 0, den |-> 0]

\* Course.enrollement_ratio: int / int raises ZeroDivisionError on a zero divisor
enrollement_ratio_inf(course) ==
    IF course.capacity = 0
    THEN [kind |-> "float", num |-> 1, den |-> 0]
    ELSE Float(course.enrolled, course.capacity)

enrollement_ratio(course) ==
    IF course.capacity = 0
    THEN Raise("ZeroDivisionError")
    ELSE Float(course.enrolled, course.capacity)

\* one iteration of [course.enrollement_ratio for course in ...] (lines 65-67)
RatioStep ==
    /\ x_status = "building"
    /\ x_idx < Len(x_courses)
    /\ LET r == enrollement_ratio(x_courses[x_idx + 1])
       IN  IF r.kind = "float"
           THEN /\ x_data' = Append(x_data, r)
                /\ x_idx' = x_idx + 1
                /\ x_status' = x_status
           ELSE /\ x_status' = r.kind
                /\ UNCHANGED <<x_data, x_idx>>
    /\ UNCHANGED <<x_courses, careerVars, mainVars>>

\* the iterable is exhausted: the comprehension yields its list
RatioDone ==
    /\ x_status = "building"
    /\ x_idx = Len(x_courses)
    /\ x_status' = "done"
    /\ UNCHANGED <<x_courses, x_idx, x_data, careerVars, mainVars>>

InitRatio ==
    /\ CatalogInit(<<>>)
    /\ x_courses \in SeqsUpTo(RatioCourse, MaxRatioCourses)
    /\ x_idx = 0
    /\ x_data = <<>>
    /\ x_status = "building"
    /\ MainIdle

NextRatio == RatioStep \/ RatioDone

SpecRatio == InitRatio /\ [][NextRatio]_vars

\* ------------------------------------------------- main and cli_interface
Seasons == {"Fall", "Spring"}
Dates == {"2021-12-08", "2022-01-11"}
\* what a raw catalog of the file leads to: "ok"; "malformed", a key missing or
\* a field int() or fromisoformat() rejects; "zero_capacity", a course with
\* capacity 0; "empty", a ratio list with nothing in it
Kinds == {"ok", "malformed", "zero_capacity", "empty"}

RawCatalog == [semester_season : Seasons, date_collected : Dates, kind : Kinds]

\* cli_interface, lines 341-343: the arguments are parsed and main is called
CliCallMain ==
    /\ pc = "idle"
    /\ pc' = "isfile"
    /\ UNCHANGED <<file_exists, isfile_result, opened, file_content, cat_idx, catalogs,
                   fall_2021_12_08, spring_2021_12_08, spring_2022_01_11, exc, stderr,
                   exit_status>>
    /\ UNCHANGED <<careerVars, ratioVars>>

\* the exception the raise statement of line 251 ends with: its argument
\* formats the name input_file, which main never binds
missing_file_exception == "NameError"

\* main, lines 250-251
MainCheckFile ==
    /\ pc = "isfile"
    /\ IF file_exists
       THEN /\ isfile_result' = "yes"
            /\ pc' = "open"
            /\ exc' = exc
       ELSE /\ isfile_result' = "no"
            /\ pc' = "except"
            /\ exc' = missing_file_exception
    /\ UNCHANGED <<file_exists, opened, file_content, cat_idx, catalogs, fall_2021_12_08,
                   spring_2021_12_08, spring_2022_01_11, stderr, exit_status>>
    /\ UNCHANGED <<careerVars, ratioVars>>

\* environment: the file is removed between the test of line 250 and the open
\* of line 258
EnvRemoveFile ==
    /\ pc = "open"
    /\ file_exists
    /\ file_exists' = FALSE
    /\ UNCHANGED <<pc, isfile_result, opened, file_content, cat_idx, catalogs,
                   fall_2021_12_08, spring_2021_12_08, spring_2022_01_11, exc, stderr,
                   exit_status>>
    /\ UNCHANGED <<careerVars, ratioVars>>

\* main, line 258: open() raises FileNotFoundError when there is no such file
MainOpen ==
    /\ pc = "open"
    /\ IF file_exists
       THEN /\ opened' = TRUE
            /\ pc' = "load"
            /\ exc' = exc
       ELSE /\ opened' = opened
            /\ pc' = "except"
            /\ exc' = "FileNotFoundError"
    /\ UNCHANGED <<file_exists, isfile_result, file_content, cat_idx, catalogs,
                   fall_2021_12_08, spring_2021_12_08, spring_2022_01_11, stderr,
                   exit_status>>
    /\ UNCHANGED <<careerVars, ratioVars>>

\* main, lines 259-267: one raw catalog is constructed and filed
MainLoadCatalog ==
    /\ pc = "load"
    /\ cat_idx < Len(file_content)
    /\ LET raw == file_content[cat_idx + 1]
           k == Len(catalogs) + 1
       IN  IF raw.kind = "malformed"
           THEN /\ exc' = "KeyError"
                /\ pc' = "except"
                /\ UNCHANGED <<cat_idx, catalogs, fall_2021_12_08, spring_2021_12_08,
                               spring_2022_01_11>>
           ELSE /\ catalogs' = Append(catalogs, raw)
                /\ cat_idx' = cat_idx + 1
                /\ fall_2021_12_08' =
                       IF raw.semester_season = "Fall" THEN k ELSE fall_2021_12_08
                /\ spring_2021_12_08' =
                       IF raw.semester_season # "Fall" /\ raw.date_collected = "2021-12-08"
                       THEN k ELSE spring_2021_12_08
                /\ spring_2022_01_11' =
                       IF raw.semester_season # "Fall" /\ raw.date_collected # "2021-12-08"
                       THEN k ELSE spring_2022_01_11
                /\ UNCHANGED <<pc, exc>>
    /\ UNCHANGED <<file_exists, isfile_result, opened, file_content, stderr, exit_status>>
    /\ UNCHANGED <<careerVars, ratioVars>>

\* the loop of line 259 ends; the loop of lines 269-272 only continues
MainLoadDone ==
    /\ pc = "load"
    /\ cat_idx = Len(file_content)
    /\ pc' = "plots"
    /\ UNCHANGED <<file_exists, isfile_result, opened, file_content, cat_idx, catalogs,
                   fall_2021_12_08, spring_2021_12_08, spring_2022_01_11, exc, stderr,
                   exit_status>>
    /\ UNCHANGED <<careerVars, ratioVars>>

\* main, lines 274-336: the four box plots of the three filed catalogs. A None
\* among the three raises AttributeError at the first courses_by_career call;
\* a zero capacity raises ZeroDivisionError in a ratio comprehension; an empty
\* ratio list raises ValueError in max() (line 176)
MainPlots ==
    /\ pc = "plots"
    /\ LET slots == {fall_2021_12_08, spring_2021_12_08, spring_2022_01_11}
           kinds == {catalogs[k].kind : k \in slots \ {0}}
       IN  IF 0 \in slots
           THEN exc' = "AttributeError" /\ pc' = "except"
           ELSE \/ "zero_capacity" \in kinds /\ exc' = "ZeroDivisionError" /\ pc' = "except"
                \/ "empty" \in kinds /\ exc' = "ValueError" /\ pc' = "except"
                \/ kinds = {"ok"} /\ exc' = exc /\ pc' = "return"
    /\ UNCHANGED <<file_exists, isfile_result, opened, file_content, cat_idx, catalogs,
                   fall_2021_12_08, spring_2021_12_08, spring_2022_01_11, stderr,
                   exit_status>>
    /\ UNCHANGED <<careerVars, ratioVars>>

\* cli_interface, line 344: main returned, sys.exit(0)
CliExitZero ==
    /\ pc = "return"
    /\ pc' = "exited"
    /\ exit_status' = "exit(0)"
    /\ UNCHANGED <<file_exists, isfile_result, opened, file_content, cat_idx, catalogs,
                   fall_2021_12_08, spring_2021_12_08, spring_2022_01_11, exc, stderr>>
    /\ UNCHANGED <<careerVars, ratioVars>>

\* cli_interface, lines 345-347: the handler of FileNotFoundError
CliExceptFileNotFound ==
    /\ pc = "except"
    /\ exc = "FileNotFoundError"
    /\ stderr' = "message"
    /\ exit_status' = "exit(1)"
    /\ pc' = "exited"
    /\ UNCHANGED <<file_exists, isfile_result, opened, file_content, cat_idx, catalogs,
                   fall_2021_12_08, spring_2021_12_08, spring_2022_01_11, exc>>
    /\ UNCHANGED <<careerVars, ratioVars>>

\* any other exception passes the handler of line 345 and ends the interpreter,
\* which prints the traceback and exits with status 1
UncaughtException ==
    /\ pc = "except"
    /\ exc # "FileNotFoundError"
    /\ stderr' = "traceback"
    /\ exit_status' = "exit(1)"
    /\ pc' = "exited"
    /\ UNCHANGED <<file_exists, isfile_result, opened, file_content, cat_idx, catalogs,
                   fall_2021_12_08, spring_2021_12_08, spring_2022_01_11, exc>>
    /\ UNCHANGED <<careerVars, ratioVars>>

InitMain ==
    /\ CatalogInit(<<>>)
    /\ RatioIdle
    /\ pc = "idle"
    /\ file_exists \in BOOLEAN
    /\ isfile_result = "unset"
    /\ opened = FALSE
    /\ file_content \in SeqsUpTo(RawCatalog, MaxCatalogs)
    /\ cat_idx = 0
    /\ catalogs = <<>>
    /\ fall_2021_12_08 = 0
    /\ spring_2021_12_08 = 0
    /\ spring_2022_01_11 = 0
    /\ exc = "none"
    /\ stderr = ""
    /\ exit_status = "running"

NextMain ==
    \/ CliCallMain
    \/ MainCheckFile
    \/ EnvRemoveFile
    \/ MainOpen
    \/ MainLoadCatalog
    \/ MainLoadDone
    \/ MainPlots
    \/ CliExitZero
    \/ CliExceptFileNotFound
    \/ UncaughtException

SpecMain == InitMain /\ [][NextMain]_vars

\* ------------------------------------------------ vocabulary of the claims
career_called == career_calls > 0

Count(s, x) == Cardinality({i \in DOMAIN s : s[i] = x})

Range(s) == {s[i] : i \in DOMAIN s}

Min(a, b) == IF a <= b THEN a ELSE b

Band(c) == c.number \div BandWidth

InUndergradRange(c) == DefaultMinLevel <= c.number /\ c.number < GradMinLevel

InGradRange(c) == GradMinLevel <= c.number /\ c.number < DefaultMaxLevel + BandWidth

GroupCount(c) ==
    Count(by_career.undergrad_exclusive, c) + Count(by_career.combined, c)
        + Count(by_career.grad_exclusive, c)

\* some undergrad-range course and some grad-range course of the catalog share a name
MatchOccurred ==
    \E i, j \in DOMAIN catalog0 :
        /\ InUndergradRange(catalog0[i])
        /\ InGradRange(catalog0[j])
        /\ catalog0[i].name = catalog0[j].name

\* s is t with some elements left out
RECURSIVE IsSubseq(_, _)
IsSubseq(s, t) ==
    IF s = <<>> THEN TRUE
    ELSE IF t = <<>> THEN FALSE
    ELSE IF Head(s) = Head(t) THEN IsSubseq(Tail(s), Tail(t))
    ELSE IsSubseq(s, Tail(t))

\* the elements of s at the indices in I, in order
RECURSIVE PickFrom(_, _, _)
PickFrom(s, I, i) ==
    IF i > Len(s) THEN <<>>
    ELSE (IF i \in I THEN <<s[i]>> ELSE <<>>) \o PickFrom(s, I, i + 1)

NameCount(s, n) == Cardinality({j \in DOMAIN s : s[j].name = n})

NameRank(s, i) == Cardinality({j \in 1..i : s[j].name = s[i].name})

\* the indices of s left once, per name, the first min(k, m) courses are taken
\* out, k and m being the name's counts in s and in other
KeptIndices(s, other) ==
    {i \in DOMAIN s :
        NameRank(s, i) > Min(NameCount(s, s[i].name), NameCount(other, s[i].name))}

\* ascending bands, and catalog order within each band
BandOrdered(s) ==
    /\ \A i, j \in DOMAIN s : i < j => Band(s[i]) <= Band(s[j])
    /\ \A b \in {Band(c) : c \in Course} :
           IsSubseq(SelectSeq(s, LAMBDA c : Band(c) = b), catalog0)

\* ------------------------------------------------------------------ C1
\* C1 as stated: each matched undergrad course U is itself the course placed in
\* "combined" (so "combined" is the list of matched undergrad courses).
C1_UndergradIsRepresentative ==
    career_called => by_career.combined = undergrads_to_delete

\* C1 (amended): for each match, in order, the course placed in "combined" is
\* the grad course G (number >= 6000) carrying the matched undergrad course's
\* name; one occurrence of each matched U leaves "undergrad exclusive" and U is
\* in no other group; each G placed in "combined" has left "grad exclusive".
C1_GradIsRepresentative ==
    career_called =>
        /\ Len(by_career.combined) = Len(undergrads_to_delete)
        /\ \A j \in DOMAIN by_career.combined :
               /\ InGradRange(by_career.combined[j])
               /\ InUndergradRange(undergrads_to_delete[j])
               /\ by_career.combined[j].name = undergrads_to_delete[j].name
        /\ \A c \in Course :
               /\ InUndergradRange(c) =>
                      /\ Count(by_career.undergrad_exclusive, c)
                             = Count(catalog0, c) - Count(undergrads_to_delete, c)
                      /\ Count(by_career.combined, c) = 0
                      /\ Count(by_career.grad_exclusive, c) = 0
               /\ InGradRange(c) =>
                      Count(by_career.grad_exclusive, c)
                          = Count(catalog0, c) - Count(by_career.combined, c)

C1_Witness ==
    /\ career_called
    /\ Len(by_career.combined) > 0
    /\ \E i \in DOMAIN catalog0 : catalog0[i] = undergrads_to_delete[1]
    /\ \E i \in DOMAIN catalog0 : catalog0[i] = by_career.combined[1]

\* ------------------------------------------------------------------ C2
\* C2: per name, the first min(k, m) candidate-undergrad courses (iteration
\* order) leave "undergrad exclusive" and the first min(k, m) candidate-grad
\* courses leave "grad exclusive"; all the others stay, in order.
C2_FirstMatchPolicy ==
    career_called =>
        LET cu == candidate_undergrad(catalog0)
            cg == candidate_grad(catalog0)
        IN  /\ by_career.undergrad_exclusive = PickFrom(cu, KeptIndices(cu, cg), 1)
            /\ by_career.grad_exclusive = PickFrom(cg, KeptIndices(cg, cu), 1)
            /\ \A n \in Names :
                   NameCount(undergrads_to_delete, n)
                       = Min(NameCount(cu, n), NameCount(cg, n))

C2_Witness ==
    /\ career_called
    /\ \E n \in Names :
        LET k == NameCount(candidate_undergrad(catalog0), n)
            m == NameCount(candidate_grad(catalog0), n)
        IN  k > 0 /\ m > 0 /\ k # m
    /\ Len(by_career.undergrad_exclusive) + Len(by_career.grad_exclusive) > 0

\* ------------------------------------------------------------------ C3
\* C3: for min_level <= max_level (multiples of 1000) the keys of the mapping
\* are min_level, min_level + 1000, ..., max_level in ascending order, empty
\* bands included; no course is in two buckets; the buckets together hold
\* exactly the catalog's courses with min_level <= number < max_level + 1000.
C3_LevelBuckets ==
    (levels_called /\ levels.min_level <= levels.max_level) =>
        LET ret == levels.ret
            n == (levels.max_level - levels.min_level) \div BandWidth + 1
        IN  /\ Len(ret) = n
            /\ \A k \in 1..n : ret[k][1] = levels.min_level + (k - 1) * BandWidth
            /\ \A a, b \in DOMAIN ret :
                   a # b => Range(ret[a][2]) \cap Range(ret[b][2]) = {}
            /\ \A c \in Course :
                   Count(chain_from_iterable(values(ret)), c)
                       = IF levels.min_level <= c.number
                            /\ c.number < levels.max_level + BandWidth
                         THEN Count(catalog0, c)
                         ELSE 0

C3_Witness ==
    /\ levels_called
    /\ levels.min_level < levels.max_level
    /\ \E k \in DOMAIN levels.ret : levels.ret[k][2] = <<>>
    /\ \E k \in DOMAIN levels.ret : Len(levels.ret[k][2]) = 2
    /\ \E c \in Range(catalog0) : c.number >= levels.max_level + BandWidth

\* ------------------------------------------------------------------ C4
\* C4: no course occurrence of the catalog is in two groups and every element
\* of a group is a course of the catalog (per course, the three groups hold at
\* most as many occurrences as the catalog); the sizes add up to at most
\* |courses|, and to less when a name match occurred.
C4_GroupsDisjointWithinCatalog ==
    career_called =>
        /\ \A c \in Course : GroupCount(c) <= Count(catalog0, c)
        /\ \A c \in Range(by_career.undergrad_exclusive) \cup Range(by_career.combined)
                     \cup Range(by_career.grad_exclusive) : c \in Range(catalog0)
        /\ Len(by_career.undergrad_exclusive) + Len(by_career.combined)
               + Len(by_career.grad_exclusive) <= Len(catalog0)
        /\ MatchOccurred =>
               Len(by_career.undergrad_exclusive) + Len(by_career.combined)
                   + Len(by_career.grad_exclusive) < Len(catalog0)

C4_Witness ==
    /\ career_called
    /\ MatchOccurred
    /\ Len(by_career.combined) > 0
    /\ Len(by_career.undergrad_exclusive) > 0
    /\ Len(by_career.undergrad_exclusive) + Len(by_career.combined)
           + Len(by_career.grad_exclusive) = Len(catalog0) - 1

\* ------------------------------------------------------------------ C5
\* C5 as stated: whatever its number, every course of the catalog is in a
\* group, except grad courses (number >= 6000) consumed by a name match.
C5_NoCourseDroppedForItsNumber ==
    career_called =>
        \A c \in Range(catalog0) :
            /\ c.number < GradMinLevel => GroupCount(c) = Count(catalog0, c)
            /\ c.number >= GradMinLevel =>
                   /\ GroupCount(c) <= Count(catalog0, c)
                   /\ GroupCount(c) < Count(catalog0, c) =>
                          \E j \in DOMAIN undergrads_to_delete :
                              undergrads_to_delete[j].name = c.name

\* C5 (amended): the candidate-undergrad courses are those with
\* 1000 <= number < 6000 and the candidate-grad courses those with
\* 6000 <= number < 10000; every occurrence of such a course is in exactly one
\* group or is an undergrad course consumed by a name match; a course with
\* number < 1000 or number >= 10000 is in no group.
C5_CoverageWithinDefaultLevels ==
    career_called =>
        \A c \in Course :
            /\ InUndergradRange(c) =>
                   /\ GroupCount(c) + Count(undergrads_to_delete, c) = Count(catalog0, c)
                   /\ Count(candidate_undergrad(catalog0), c) = Count(catalog0, c)
            /\ InGradRange(c) =>
                   /\ GroupCount(c) = Count(catalog0, c)
                   /\ Count(candidate_grad(catalog0), c) = Count(catalog0, c)
            /\ ~InUndergradRange(c) /\ ~InGradRange(c) =>
                   GroupCount(c) + Count(undergrads_to_delete, c) = 0

C5_Witness ==
    /\ career_called
    /\ \E c \in Range(catalog0) : c.number < DefaultMinLevel
    /\ \E c \in Range(catalog0) : c.number >= DefaultMaxLevel + BandWidth
    /\ \E c \in Range(catalog0) : InGradRange(c) /\ GroupCount(c) = 1

\* ------------------------------------------------------------------ C6
\* C6: a course numbered 1000..4999 always ends in "undergrad exclusive"; only
\* courses numbered 5000..5999 are moved out of it by a name match.
C6_OnlyLevel5000Migrates ==
    career_called =>
        /\ \A c \in Course :
               (DefaultMinLevel <= c.number /\ c.number < UndergradMaxLevel) =>
                   Count(by_career.undergrad_exclusive, c) = Count(catalog0, c)
        /\ \A j \in DOMAIN undergrads_to_delete :
               /\ UndergradMaxLevel <= undergrads_to_delete[j].number
               /\ undergrads_to_delete[j].number < GradMinLevel

C10_CatalogUnchangedAndRepeatable ==
    /\ courses = catalog0
    /\ career_called => by_career = first_by_career

C10_Witness ==
    /\ career_calls >= 2
    /\ levels_called
    /\ Len(by_career.combined) > 0
    /\ Len(courses) = MaxCourses

\* ------------------------------------------------------------------ C8
FirstZeroCapacity ==
    CHOOSE k \in DOMAIN x_courses :
        x_courses[k].capacity = 0 /\ \A m \in 1..(k - 1) : x_courses[m].capacity # 0

\* C8: with every capacity non-zero the comprehension yields one ratio per
\* course, in order, each equal to enrolled / capacity; with a zero capacity
\* it stops at the first such course with ZeroDivisionError and yields no
\* list; no ratio built is an infinity or NaN (a zero denominator).
C8_RatiosOrZeroDivisionError ==
    /\ x_status \in {"building", "done", "ZeroDivisionError"}
    /\ \A k \in DOMAIN x_data :
           /\ x_data[k].kind = "float"
           /\ x_data[k].den # 0
           /\ x_data[k].num * x_courses[k].capacity = x_courses[k].enrolled * x_data[k].den
    /\ x_status = "done" =>
           /\ \A k \in DOMAIN x_courses : x_courses[k].capacity # 0
           /\ Len(x_data) = Len(x_courses)
    /\ x_status = "ZeroDivisionError" =>
           /\ \E k \in DOMAIN x_courses : x_courses[k].capacity = 0
           /\ x_idx = FirstZeroCapacity - 1
           /\ Len(x_data) = x_idx
    /\ (\E k \in DOMAIN x_courses : x_courses[k].capacity = 0) => x_status # "done"
    /\ (x_status = "building" /\ x_idx = Len(x_courses)) =>
           \A k \in DOMAIN x_courses : x_courses[k].capacity # 0

C8_Witness ==
    /\ x_status = "ZeroDivisionError"
    /\ x_idx >= 1
    /\ x_idx + 1 < Len(x_courses)

\* ------------------------------------------------------------------ C9
\* C9: when the data file path does not exist, main raises FileNotFoundError
\* with no file opened and no catalog constructed, and cli_interface catches
\* it, reports the message and exits with a non-zero status.
C9_MissingFileReported ==
    (isfile_result = "no" /\ pc \in {"except", "exited"}) =>
        /\ exc = "FileNotFoundError"
        /\ ~opened
        /\ catalogs = <<>>
        /\ pc = "exited" => (stderr = "message" /\ exit_status = "exit(1)")

====
